---------------------------- MODULE Spec2Model ----------------------------
(***************************************************************************)
(* Model of the drift monitor and policy layer of god-variable-theory:     *)
(*   gv_policy.py            GVPolicyConfig, GVRunCounters, classify_state,*)
(*                           decide_action, update_counters,               *)
(*                           attach_policy_fields_to_row                   *)
(*   src/gv_edgecase_sims.py GVMonitor and its update                       *)
(*                                                                         *)
(* Numbers.  Python floats are modelled as tagged values: a finite value   *)
(* is an integer count of 1e-4 units (0.60 is 6000, 0.0010 is 10), and NaN,*)
(* +inf and -inf are values of their own, compared as IEEE 754 compares    *)
(* them.  Arithmetic on finite values is exact; binary rounding of the     *)
(* least significant bits is not modelled.                                 *)
(***************************************************************************)
EXTENDS Integers, Sequences, FiniteSets, TLC

VARIABLES
    cfg,        \* the GVPolicyConfig of the run
    args,       \* arguments of the latest decide_action call, NoCall before
    decision,   \* what the latest decide_action call returned
    csv_row,    \* the CSV row of the current step
    counters,   \* the GVRunCounters of the run
    calls,      \* the states given to update_counters so far, in order
    monitor,    \* the GVMonitor: alpha, beta, threshold, _prev_s
    ret,        \* what the latest GVMonitor.update returned
    n_updates,  \* number of GVMonitor.update calls made
    input,      \* the (global_entropy, local_entropy) pair fed last, or NoInput
    past_calls, \* the (arguments, result) pairs of the decide_action calls so far
    runs,       \* the scenario runs driven side by side, each with its own objects
    series,     \* the locals of run_monitor_series and the rows it has built
    velocity,   \* the GVRecoverabilityVelocity observer and its latest return
    sim,        \* the locals of the scenario generator that is running
    interlock   \* what the latest evaluate_interlock call returned

vars == <<cfg, args, decision, csv_row, counters, calls, monitor, ret, n_updates,
          input, past_calls, runs, series, velocity, sim, interlock>>

policyVars  == <<cfg, args, decision, csv_row, past_calls, interlock>>
counterVars == <<counters, calls>>
monitorVars == <<monitor, ret, n_updates, input>>
runVars     == <<runs>>
seriesVars  == <<series, velocity, sim>>

---------------------------------------------------------------------------
(* Bounds of the model *)

\* update_counters calls per run
MaxSteps == 7
\* GVMonitor.update calls per run
MaxUpdates == 3
\* metric inputs are sampled within Margin units on each side of a threshold
Margin == 1

---------------------------------------------------------------------------
(* Optional[int]: None is the empty sequence, a set value a one-element one *)

None == << >>
Some(n) == <<n>>
IsNone(o) == o = << >>
Val(o) == o[1]

---------------------------------------------------------------------------
(* Floats *)

Fin(n) == [k |-> "fin", v |-> n]
NaN    == [k |-> "nan", v |-> 0]
PosInf == [k |-> "inf", v |-> 1]
NegInf == [k |-> "inf", v |-> -1]

IsNaN(a)    == a.k = "nan"
IsInf(a)    == a.k = "inf"
IsFinite(a) == a.k = "fin"

\* a < b as IEEE 754 orders them: false when either side is NaN
FLt(a, b) ==
    IF IsNaN(a) \/ IsNaN(b) THEN FALSE
    ELSE IF IsFinite(a) /\ IsFinite(b) THEN a.v < b.v
    ELSE IF IsInf(a) /\ IsInf(b) THEN a.v < b.v
    ELSE IF IsInf(a) THEN a.v < 0
    ELSE b.v > 0

\* a == b: false when either side is NaN
FEq(a, b) == ~IsNaN(a) /\ ~IsNaN(b) /\ a = b

FLe(a, b) == FLt(a, b) \/ FEq(a, b)
FGt(a, b) == FLt(b, a)
FGe(a, b) == FLe(b, a)


---------------------------------------------------------------------------
(* GVPolicyConfig: the defaults of gv_policy.py, in 1e-4 units *)

good_recoverability == 6000
good_cum_abs_dgv == 3000
good_peak_abs_ds_dt == 10

stabilize_recoverability == 6000
stabilize_cum_abs_dgv == 3000
stabilize_peak_abs_ds_dt == 10

refuse_recoverability_floor == 500
refuse_cum_abs_dgv == 7500
refuse_peak_abs_ds_dt == 40

unrecoverable_scenarios == {"swarm_amplification", "adversarial_saturation"}

GVPolicyConfig ==
    [ unrecoverable_scenarios     |-> unrecoverable_scenarios,
      good_recoverability         |-> Fin(good_recoverability),
      good_cum_abs_dgv            |-> Fin(good_cum_abs_dgv),
      good_peak_abs_ds_dt         |-> Fin(good_peak_abs_ds_dt),
      stabilize_recoverability    |-> Fin(stabilize_recoverability),
      stabilize_cum_abs_dgv       |-> Fin(stabilize_cum_abs_dgv),
      stabilize_peak_abs_ds_dt    |-> Fin(stabilize_peak_abs_ds_dt),
      refuse_recoverability_floor |-> Fin(refuse_recoverability_floor),
      refuse_cum_abs_dgv          |-> Fin(refuse_cum_abs_dgv),
      refuse_peak_abs_ds_dt       |-> Fin(refuse_peak_abs_ds_dt) ]

\* A configuration a caller supplies instead of the default: another flagged
\* scenario, and stabilize thresholds looser than the GOOD ones.
TunedConfig ==
    [ GVPolicyConfig EXCEPT
        !.unrecoverable_scenarios  = {"human_ai_feedback_loop"},
        !.stabilize_recoverability = Fin(4000),
        !.stabilize_cum_abs_dgv    = Fin(5000),
        !.stabilize_peak_abs_ds_dt = Fin(20) ]

\* A configuration whose hard drift limit sits on the GOOD drift threshold and
\* whose stabilize test on the velocity is tighter than the GOOD one, so that
\* a GOOD state can come with SAFE_REFUSAL or STABILIZE.
StrictConfig ==
    [ GVPolicyConfig EXCEPT
        !.refuse_cum_abs_dgv       = Fin(3000),
        !.stabilize_peak_abs_ds_dt = Fin(1) ]

Configs == {GVPolicyConfig, TunedConfig, StrictConfig}

---------------------------------------------------------------------------
(* Inputs of decide_action *)

Scenarios ==
    {"swarm_amplification", "adversarial_saturation",
     "human_ai_feedback_loop", "benign"}

NonFinite == {NaN, PosInf, NegInf}

Around(t) == {Fin(t.v + d) : d \in (0 - Margin)..Margin}

RecoverabilityInputs ==
    UNION {Around(c.good_recoverability) \cup Around(c.stabilize_recoverability)
             \cup Around(c.refuse_recoverability_floor) : c \in Configs}
    \cup {Fin(0), Fin(300), Fin(5000), Fin(10000)} \cup NonFinite

DriftInputs ==
    UNION {Around(c.good_cum_abs_dgv) \cup Around(c.stabilize_cum_abs_dgv)
             \cup Around(c.refuse_cum_abs_dgv) : c \in Configs}
    \cup {Fin(0), Fin(1000), Fin(4000)} \cup NonFinite

VelocityInputs ==
    UNION {Around(c.good_peak_abs_ds_dt) \cup Around(c.stabilize_peak_abs_ds_dt)
             \cup Around(c.refuse_peak_abs_ds_dt) : c \in Configs}
    \cup {Fin(0), Fin(1)} \cup NonFinite

---------------------------------------------------------------------------
(* gv_policy.py: classification and decision *)

\* Variant of classify_state: recoverability is tested with > where the code has >=
classify_state_strict(recoverability, cum_abs_dgv, peak_abs_ds_dt, c) ==
    IF /\ FGt(recoverability, c.good_recoverability)
       /\ FLe(cum_abs_dgv, c.good_cum_abs_dgv)
       /\ FLe(peak_abs_ds_dt, c.good_peak_abs_ds_dt)
    THEN "GOOD"
    ELSE "BAD"

\* Variant of classify_state: the drift is tested with < where the code has <=
classify_state_drift_strict(recoverability, cum_abs_dgv, peak_abs_ds_dt, c) ==
    IF /\ FGe(recoverability, c.good_recoverability)
       /\ FLt(cum_abs_dgv, c.good_cum_abs_dgv)
       /\ FLe(peak_abs_ds_dt, c.good_peak_abs_ds_dt)
    THEN "GOOD"
    ELSE "BAD"

classify_state(recoverability, cum_abs_dgv, peak_abs_ds_dt, c) ==
    IF /\ FGe(recoverability, c.good_recoverability)
       /\ FLe(cum_abs_dgv, c.good_cum_abs_dgv)
       /\ FLe(peak_abs_ds_dt, c.good_peak_abs_ds_dt)
    THEN "GOOD"
    ELSE "BAD"

Decision(action, reason, state) ==
    [action |-> action, reason |-> reason, state |-> state]

\* Variants of decide_action with one plausible slip each

\* the drift budget is tested before the recoverability floor
decide_action_drift_first(scenario, recoverability, cum_abs_dgv, peak_abs_ds_dt, c) ==
    LET state == classify_state(recoverability, cum_abs_dgv, peak_abs_ds_dt, c)
    IN
    IF /\ scenario \in c.unrecoverable_scenarios
       /\ FGe(cum_abs_dgv, c.refuse_cum_abs_dgv)
    THEN Decision("SAFE_REFUSAL", "drift_budget_exceeded", state)
    ELSE IF /\ scenario \in c.unrecoverable_scenarios
            /\ FLe(recoverability, c.refuse_recoverability_floor)
    THEN Decision("SAFE_REFUSAL", "recoverability_floor", state)
    ELSE IF /\ scenario \in c.unrecoverable_scenarios
            /\ FGe(peak_abs_ds_dt, c.refuse_peak_abs_ds_dt)
    THEN Decision("SAFE_REFUSAL", "dsdt_spike", state)
    ELSE IF \/ FLt(recoverability, c.stabilize_recoverability)
            \/ FGt(cum_abs_dgv, c.stabilize_cum_abs_dgv)
            \/ FGt(peak_abs_ds_dt, c.stabilize_peak_abs_ds_dt)
    THEN Decision("STABILIZE", "trending_unsafe", state)
    ELSE Decision("CONTINUE", "", state)

\* the hard limits are tested for every scenario, flagged or not
decide_action_ungated(scenario, recoverability, cum_abs_dgv, peak_abs_ds_dt, c) ==
    LET state == classify_state(recoverability, cum_abs_dgv, peak_abs_ds_dt, c)
    IN
    IF FLe(recoverability, c.refuse_recoverability_floor)
    THEN Decision("SAFE_REFUSAL", "recoverability_floor", state)
    ELSE IF FGe(cum_abs_dgv, c.refuse_cum_abs_dgv)
    THEN Decision("SAFE_REFUSAL", "drift_budget_exceeded", state)
    ELSE IF FGe(peak_abs_ds_dt, c.refuse_peak_abs_ds_dt)
    THEN Decision("SAFE_REFUSAL", "dsdt_spike", state)
    ELSE IF \/ FLt(recoverability, c.stabilize_recoverability)
            \/ FGt(cum_abs_dgv, c.stabilize_cum_abs_dgv)
            \/ FGt(peak_abs_ds_dt, c.stabilize_peak_abs_ds_dt)
    THEN Decision("STABILIZE", "trending_unsafe", state)
    ELSE Decision("CONTINUE", "", state)

\* the velocity limit is tested with > where the code has >=
decide_action_strict_spike(scenario, recoverability, cum_abs_dgv, peak_abs_ds_dt, c) ==
    LET state == classify_state(recoverability, cum_abs_dgv, peak_abs_ds_dt, c)
    IN
    IF /\ scenario \in c.unrecoverable_scenarios
       /\ FLe(recoverability, c.refuse_recoverability_floor)
    THEN Decision("SAFE_REFUSAL", "recoverability_floor", state)
    ELSE IF /\ scenario \in c.unrecoverable_scenarios
            /\ FGe(cum_abs_dgv, c.refuse_cum_abs_dgv)
    THEN Decision("SAFE_REFUSAL", "drift_budget_exceeded", state)
    ELSE IF /\ scenario \in c.unrecoverable_scenarios
            /\ FGt(peak_abs_ds_dt, c.refuse_peak_abs_ds_dt)
    THEN Decision("SAFE_REFUSAL", "dsdt_spike", state)
    ELSE IF \/ FLt(recoverability, c.stabilize_recoverability)
            \/ FGt(cum_abs_dgv, c.stabilize_cum_abs_dgv)
            \/ FGt(peak_abs_ds_dt, c.stabilize_peak_abs_ds_dt)
    THEN Decision("STABILIZE", "trending_unsafe", state)
    ELSE Decision("CONTINUE", "", state)

\* STABILIZE is returned without its reason
decide_action_no_reason(scenario, recoverability, cum_abs_dgv, peak_abs_ds_dt, c) ==
    LET state == classify_state(recoverability, cum_abs_dgv, peak_abs_ds_dt, c)
    IN
    IF /\ scenario \in c.unrecoverable_scenarios
       /\ FLe(recoverability, c.refuse_recoverability_floor)
    THEN Decision("SAFE_REFUSAL", "recoverability_floor", state)
    ELSE IF /\ scenario \in c.unrecoverable_scenarios
            /\ FGe(cum_abs_dgv, c.refuse_cum_abs_dgv)
    THEN Decision("SAFE_REFUSAL", "drift_budget_exceeded", state)
    ELSE IF /\ scenario \in c.unrecoverable_scenarios
            /\ FGe(peak_abs_ds_dt, c.refuse_peak_abs_ds_dt)
    THEN Decision("SAFE_REFUSAL", "dsdt_spike", state)
    ELSE IF \/ FLt(recoverability, c.stabilize_recoverability)
            \/ FGt(cum_abs_dgv, c.stabilize_cum_abs_dgv)
            \/ FGt(peak_abs_ds_dt, c.stabilize_peak_abs_ds_dt)
    THEN Decision("STABILIZE", "", state)
    ELSE Decision("CONTINUE", "", state)

\* the drift threshold of the stabilize test is tested with >= where the code has >
decide_action_stabilize_at(scenario, recoverability, cum_abs_dgv, peak_abs_ds_dt, c) ==
    LET state == classify_state(recoverability, cum_abs_dgv, peak_abs_ds_dt, c)
    IN
    IF /\ scenario \in c.unrecoverable_scenarios
       /\ FLe(recoverability, c.refuse_recoverability_floor)
    THEN Decision("SAFE_REFUSAL", "recoverability_floor", state)
    ELSE IF /\ scenario \in c.unrecoverable_scenarios
            /\ FGe(cum_abs_dgv, c.refuse_cum_abs_dgv)
    THEN Decision("SAFE_REFUSAL", "drift_budget_exceeded", state)
    ELSE IF /\ scenario \in c.unrecoverable_scenarios
            /\ FGe(peak_abs_ds_dt, c.refuse_peak_abs_ds_dt)
    THEN Decision("SAFE_REFUSAL", "dsdt_spike", state)
    ELSE IF \/ FLt(recoverability, c.stabilize_recoverability)
            \/ FGe(cum_abs_dgv, c.stabilize_cum_abs_dgv)
            \/ FGt(peak_abs_ds_dt, c.stabilize_peak_abs_ds_dt)
    THEN Decision("STABILIZE", "trending_unsafe", state)
    ELSE Decision("CONTINUE", "", state)

\* the drift and spike limits are skipped while recoverability is good
decide_action_rec_override(scenario, recoverability, cum_abs_dgv, peak_abs_ds_dt, c) ==
    LET state == classify_state(recoverability, cum_abs_dgv, peak_abs_ds_dt, c)
        good_rec == FGe(recoverability, c.good_recoverability)
    IN
    IF /\ scenario \in c.unrecoverable_scenarios
       /\ FLe(recoverability, c.refuse_recoverability_floor)
    THEN Decision("SAFE_REFUSAL", "recoverability_floor", state)
    ELSE IF /\ scenario \in c.unrecoverable_scenarios
            /\ ~good_rec
            /\ FGe(cum_abs_dgv, c.refuse_cum_abs_dgv)
    THEN Decision("SAFE_REFUSAL", "drift_budget_exceeded", state)
    ELSE IF /\ scenario \in c.unrecoverable_scenarios
            /\ ~good_rec
            /\ FGe(peak_abs_ds_dt, c.refuse_peak_abs_ds_dt)
    THEN Decision("SAFE_REFUSAL", "dsdt_spike", state)
    ELSE IF \/ FLt(recoverability, c.stabilize_recoverability)
            \/ FGt(cum_abs_dgv, c.stabilize_cum_abs_dgv)
            \/ FGt(peak_abs_ds_dt, c.stabilize_peak_abs_ds_dt)
    THEN Decision("STABILIZE", "trending_unsafe", state)
    ELSE Decision("CONTINUE", "", state)

\* The code, gv_policy.py lines 88-123
decide_action(scenario, recoverability, cum_abs_dgv, peak_abs_ds_dt, c) ==
    LET state == classify_state(recoverability, cum_abs_dgv, peak_abs_ds_dt, c)
    IN
    IF /\ scenario \in c.unrecoverable_scenarios
       /\ FLe(recoverability, c.refuse_recoverability_floor)
    THEN Decision("SAFE_REFUSAL", "recoverability_floor", state)
    ELSE IF /\ scenario \in c.unrecoverable_scenarios
            /\ FGe(cum_abs_dgv, c.refuse_cum_abs_dgv)
    THEN Decision("SAFE_REFUSAL", "drift_budget_exceeded", state)
    ELSE IF /\ scenario \in c.unrecoverable_scenarios
            /\ FGe(peak_abs_ds_dt, c.refuse_peak_abs_ds_dt)
    THEN Decision("SAFE_REFUSAL", "dsdt_spike", state)
    ELSE IF \/ FLt(recoverability, c.stabilize_recoverability)
            \/ FGt(cum_abs_dgv, c.stabilize_cum_abs_dgv)
            \/ FGt(peak_abs_ds_dt, c.stabilize_peak_abs_ds_dt)
    THEN Decision("STABILIZE", "trending_unsafe", state)
    ELSE Decision("CONTINUE", "", state)

---------------------------------------------------------------------------
(* gv_policy.py: run counters *)

GVRunCounters ==
    [ steps_total         |-> 0,
      steps_good          |-> 0,
      steps_bad           |-> 0,
      first_bad_step      |-> None,
      last_recovery_steps |-> None ]

\* A ratio num/den of two integers, den > 0
Ratio(num, den) == [num |-> num, den |-> den]

\* Variant of goodness_ratio: the guard tests steps_good instead of
\* steps_total, and the division is left to whatever the counters hold
goodness_ratio_unguarded(c) ==
    IF c.steps_good <= 0
    THEN Ratio(0, 1)
    ELSE Ratio(c.steps_total, c.steps_good)

goodness_ratio(c) ==
    IF c.steps_total <= 0
    THEN Ratio(0, 1)
    ELSE Ratio(c.steps_good, c.steps_total)

\* Variants of update_counters with one plausible slip each

\* steps_bad is counted only when a streak opens
update_counters_bad_once(c, state) ==
    LET c1 == [c EXCEPT !.steps_total = @ + 1]
    IN
    IF state = "GOOD"
    THEN LET c2 == [c1 EXCEPT !.steps_good = @ + 1]
         IN IF ~IsNone(c2.first_bad_step)
            THEN [c2 EXCEPT
                    !.last_recovery_steps =
                        Some(c2.steps_total - Val(c2.first_bad_step)),
                    !.first_bad_step = None]
            ELSE c2
    ELSE IF IsNone(c1.first_bad_step)
         THEN [c1 EXCEPT !.steps_bad = @ + 1,
                         !.first_bad_step = Some(c1.steps_total)]
         ELSE c1

\* first_bad_step is recorded 0-indexed, before steps_total is incremented
update_counters_zero_indexed(c, state) ==
    LET c1 == [c EXCEPT !.steps_total = @ + 1]
    IN
    IF state = "GOOD"
    THEN LET c2 == [c1 EXCEPT !.steps_good = @ + 1]
         IN IF ~IsNone(c2.first_bad_step)
            THEN [c2 EXCEPT
                    !.last_recovery_steps =
                        Some(c2.steps_total - Val(c2.first_bad_step)),
                    !.first_bad_step = None]
            ELSE c2
    ELSE LET c2 == [c1 EXCEPT !.steps_bad = @ + 1]
         IN IF IsNone(c2.first_bad_step)
            THEN [c2 EXCEPT !.first_bad_step = Some(c.steps_total)]
            ELSE c2

\* the streak is left open when the run recovers
update_counters_streak_kept(c, state) ==
    LET c1 == [c EXCEPT !.steps_total = @ + 1]
    IN
    IF state = "GOOD"
    THEN LET c2 == [c1 EXCEPT !.steps_good = @ + 1]
         IN IF ~IsNone(c2.first_bad_step)
            THEN [c2 EXCEPT
                    !.last_recovery_steps =
                        Some(c2.steps_total - Val(c2.first_bad_step))]
            ELSE c2
    ELSE LET c2 == [c1 EXCEPT !.steps_bad = @ + 1]
         IN IF IsNone(c2.first_bad_step)
            THEN [c2 EXCEPT !.first_bad_step = Some(c2.steps_total)]
            ELSE c2

\* first_bad_step is overwritten on every BAD step
update_counters_restamp(c, state) ==
    LET c1 == [c EXCEPT !.steps_total = @ + 1]
    IN
    IF state = "GOOD"
    THEN LET c2 == [c1 EXCEPT !.steps_good = @ + 1]
         IN IF ~IsNone(c2.first_bad_step)
            THEN [c2 EXCEPT
                    !.last_recovery_steps =
                        Some(c2.steps_total - Val(c2.first_bad_step)),
                    !.first_bad_step = None]
            ELSE c2
    ELSE [c1 EXCEPT !.steps_bad = @ + 1,
                    !.first_bad_step = Some(c1.steps_total)]

\* first_bad_step is recorded one step late
update_counters_late_stamp(c, state) ==
    LET c1 == [c EXCEPT !.steps_total = @ + 1]
    IN
    IF state = "GOOD"
    THEN LET c2 == [c1 EXCEPT !.steps_good = @ + 1]
         IN IF ~IsNone(c2.first_bad_step)
            THEN [c2 EXCEPT
                    !.last_recovery_steps =
                        Some(c2.steps_total - Val(c2.first_bad_step)),
                    !.first_bad_step = None]
            ELSE c2
    ELSE LET c2 == [c1 EXCEPT !.steps_bad = @ + 1]
         IN IF IsNone(c2.first_bad_step)
            THEN [c2 EXCEPT !.first_bad_step = Some(c2.steps_total + 1)]
            ELSE c2

\* last_recovery_steps is forgotten when a new streak opens
update_counters_forgets(c, state) ==
    LET c1 == [c EXCEPT !.steps_total = @ + 1]
    IN
    IF state = "GOOD"
    THEN LET c2 == [c1 EXCEPT !.steps_good = @ + 1]
         IN IF ~IsNone(c2.first_bad_step)
            THEN [c2 EXCEPT
                    !.last_recovery_steps =
                        Some(c2.steps_total - Val(c2.first_bad_step)),
                    !.first_bad_step = None]
            ELSE c2
    ELSE LET c2 == [c1 EXCEPT !.steps_bad = @ + 1]
         IN IF IsNone(c2.first_bad_step)
            THEN [c2 EXCEPT !.first_bad_step = Some(c2.steps_total),
                            !.last_recovery_steps = None]
            ELSE c2

\* The code, gv_policy.py lines 126-145
update_counters(c, state) ==
    LET c1 == [c EXCEPT !.steps_total = @ + 1]
    IN
    IF state = "GOOD"
    THEN LET c2 == [c1 EXCEPT !.steps_good = @ + 1]
         IN IF ~IsNone(c2.first_bad_step)
            THEN [c2 EXCEPT
                    !.last_recovery_steps =
                        Some(c2.steps_total - Val(c2.first_bad_step)),
                    !.first_bad_step = None]
            ELSE c2
    ELSE LET c2 == [c1 EXCEPT !.steps_bad = @ + 1]
         IN IF IsNone(c2.first_bad_step)
            THEN [c2 EXCEPT !.first_bad_step = Some(c2.steps_total)]
            ELSE c2

---------------------------------------------------------------------------
(* gv_policy.py: the CSV row *)

EmptyRow == [col \in {} |-> ""]

\* round(x, 6) of a ratio, in 1e-6 units.  A tie (a seventh decimal of
\* exactly 5) needs a denominator with a factor 2^7, beyond any run here.
round6(r) == (2 * r.num * 1000000 + r.den) \div (2 * r.den)

attach_policy_fields_to_row(row, d, c) ==
    [ col \in DOMAIN row \cup
              {"safety_action", "interlock_reason", "gv_state", "steps_total",
               "steps_good", "steps_bad", "goodness_ratio",
               "time_to_recover_steps"} |->
        CASE col = "safety_action"    -> d.action
          [] col = "interlock_reason" -> d.reason
          [] col = "gv_state"         -> d.state
          [] col = "steps_total"      -> c.steps_total
          [] col = "steps_good"       -> c.steps_good
          [] col = "steps_bad"        -> c.steps_bad
          [] col = "goodness_ratio"   -> round6(goodness_ratio(c))
          [] col = "time_to_recover_steps" ->
                IF ~IsNone(c.last_recovery_steps)
                THEN c.last_recovery_steps
                ELSE None
          [] OTHER -> row[col] ]

---------------------------------------------------------------------------
(* Float arithmetic, as IEEE 754 defines it on NaN and the infinities *)

Sign(n) == IF n < 0 THEN -1 ELSE IF n > 0 THEN 1 ELSE 0

FMul(a, b) ==
    IF IsNaN(a) \/ IsNaN(b) THEN NaN
    ELSE IF IsFinite(a) /\ IsFinite(b) THEN Fin(a.v * b.v)
    ELSE IF Sign(a.v) * Sign(b.v) = 0 THEN NaN
    ELSE [k |-> "inf", v |-> Sign(a.v) * Sign(b.v)]

FAdd(a, b) ==
    IF IsNaN(a) \/ IsNaN(b) THEN NaN
    ELSE IF IsFinite(a) /\ IsFinite(b) THEN Fin(a.v + b.v)
    ELSE IF IsInf(a) /\ IsInf(b) THEN (IF a.v = b.v THEN a ELSE NaN)
    ELSE IF IsInf(a) THEN a
    ELSE b

FNeg(a) == IF IsNaN(a) THEN NaN ELSE [a EXCEPT !.v = 0 - @]

FSub(a, b) == FAdd(a, FNeg(b))

---------------------------------------------------------------------------
(* src/gv_edgecase_sims.py: GVMonitor.  alpha, beta and the entropies are in *)
(* 1e-2 units, so s_total and ds_dt are in 1e-4 units like the threshold.   *)

threshold == 150

\* The dataclass with its defaults; prev_s is the field _prev_s
GVMonitor(alpha, beta) ==
    [ alpha     |-> Fin(alpha),
      beta      |-> Fin(beta),
      threshold |-> Fin(threshold),
      prev_s    |-> None ]

\* Variant of update: with no previous value the difference is taken from 0
update_from_zero(m, global_entropy, local_entropy) ==
    LET s_total == FAdd(FMul(m.alpha, global_entropy),
                        FMul(m.beta, local_entropy))
        ds_dt   == IF IsNone(m.prev_s)
                   THEN FSub(s_total, Fin(0))
                   ELSE FSub(s_total, Val(m.prev_s))
    IN [ mon     |-> [m EXCEPT !.prev_s = Some(s_total)],
         s_total |-> s_total,
         ds_dt   |-> ds_dt ]

\* Variant of update: the velocity is stored where the code stores s_total
update_stores_velocity(m, global_entropy, local_entropy) ==
    LET s_total == FAdd(FMul(m.alpha, global_entropy),
                        FMul(m.beta, local_entropy))
        ds_dt   == IF IsNone(m.prev_s)
                   THEN Fin(0)
                   ELSE FSub(s_total, Val(m.prev_s))
    IN [ mon     |-> [m EXCEPT !.prev_s = Some(ds_dt)],
         s_total |-> s_total,
         ds_dt   |-> ds_dt ]

\* update returns (s_total, ds_dt) and leaves the monitor in state mon
update(m, global_entropy, local_entropy) ==
    LET s_total == FAdd(FMul(m.alpha, global_entropy),
                        FMul(m.beta, local_entropy))
        ds_dt   == IF IsNone(m.prev_s)
                   THEN Fin(0)
                   ELSE FSub(s_total, Val(m.prev_s))
    IN [ mon     |-> [m EXCEPT !.prev_s = Some(s_total)],
         s_total |-> s_total,
         ds_dt   |-> ds_dt ]

\* (alpha, beta) pairs a caller constructs the monitor with
Weights == {<<92, 8>>, <<100, 0>>, <<50, 50>>}

EntropyInputs == {Fin(0), Fin(35), Fin(45), Fin(69), NaN, PosInf}

---------------------------------------------------------------------------
(* State before any call *)

NoCall == [scenario |-> "", recoverability |-> NaN,
           cum_abs_dgv |-> NaN, peak_abs_ds_dt |-> NaN]
NoDecision == Decision("", "", "")
NoReturn == [s_total |-> NaN, ds_dt |-> NaN]
NoInput == << >>
NoRuns == << >>
NoSeries == << >>
NoVelocity == << >>
NoSim == << >>
NoVerdict == << >>

\* the objects a specification does not use stay unconstructed
OthersIdle ==
    /\ series = NoSeries
    /\ velocity = NoVelocity
    /\ sim = NoSim
    /\ interlock = NoVerdict

Fresh ==
    /\ cfg = GVPolicyConfig
    /\ args = NoCall
    /\ decision = NoDecision
    /\ csv_row = EmptyRow
    /\ counters = GVRunCounters
    /\ calls = << >>
    /\ monitor = GVMonitor(92, 8)
    /\ ret = NoReturn
    /\ n_updates = 0
    /\ input = NoInput
    /\ past_calls = {}
    /\ runs = NoRuns
    /\ OthersIdle

---------------------------------------------------------------------------
(* The policy layer: one decide_action call on any arguments, then the row *)

Args ==
    [ scenario       : Scenarios,
      recoverability : RecoverabilityInputs,
      cum_abs_dgv    : DriftInputs,
      peak_abs_ds_dt : VelocityInputs ]

InitPolicy ==
    /\ cfg \in Configs
    /\ args \in Args
    /\ decision = NoDecision
    /\ csv_row = EmptyRow
    /\ counters = GVRunCounters
    /\ calls = << >>
    /\ monitor = GVMonitor(92, 8)
    /\ ret = NoReturn
    /\ n_updates = 0
    /\ input = NoInput
    /\ past_calls = {}
    /\ runs = NoRuns
    /\ OthersIdle

DecideAction ==
    /\ decision = NoDecision
    /\ decision' = decide_action(args.scenario, args.recoverability,
                                 args.cum_abs_dgv, args.peak_abs_ds_dt, cfg)
    /\ UNCHANGED <<cfg, args, csv_row, past_calls, interlock, counterVars, monitorVars, runVars, seriesVars>>

AttachPolicyFields ==
    /\ decision # NoDecision
    /\ csv_row = EmptyRow
    /\ csv_row' = attach_policy_fields_to_row(csv_row, decision, counters)
    /\ UNCHANGED <<cfg, args, decision, past_calls, interlock, counterVars, monitorVars, runVars, seriesVars>>

NextPolicy == DecideAction \/ AttachPolicyFields

SpecPolicy == InitPolicy /\ [][NextPolicy]_vars

---------------------------------------------------------------------------
(* The run counters: update_counters once per step *)

States == {"GOOD", "BAD"}

UpdateCounters(state) ==
    /\ counters.steps_total < MaxSteps
    /\ counters' = update_counters(counters, state)
    /\ calls' = Append(calls, state)
    /\ UNCHANGED <<policyVars, monitorVars, runVars, seriesVars>>

NextCounters == \E state \in States : UpdateCounters(state)

SpecCounters == Fresh /\ [][NextCounters]_vars

---------------------------------------------------------------------------
(* The monitor: update once per step *)

InitMonitor ==
    /\ cfg = GVPolicyConfig
    /\ args = NoCall
    /\ decision = NoDecision
    /\ csv_row = EmptyRow
    /\ counters = GVRunCounters
    /\ calls = << >>
    /\ \E w \in Weights : monitor = GVMonitor(w[1], w[2])
    /\ ret = NoReturn
    /\ n_updates = 0
    /\ input = NoInput
    /\ past_calls = {}
    /\ runs = NoRuns
    /\ OthersIdle

MonitorUpdate(g, l) ==
    /\ n_updates < MaxUpdates
    /\ LET r == update(monitor, g, l)
       IN /\ monitor' = r.mon
          /\ ret' = [s_total |-> r.s_total, ds_dt |-> r.ds_dt]
    /\ n_updates' = n_updates + 1
    /\ input' = <<g, l>>
    /\ UNCHANGED <<policyVars, counterVars, runVars, seriesVars>>

NextMonitor == \E g \in EntropyInputs, l \in EntropyInputs : MonitorUpdate(g, l)

SpecMonitor == InitMonitor /\ [][NextMonitor]_vars

---------------------------------------------------------------------------
(* Properties of the run counters, under SpecCounters *)

Last(s) == s[Len(s)]
Front(s) == SubSeq(s, 1, Len(s) - 1)

\* number of consecutive BAD states at the end of s
RECURSIVE TrailingBad(_)
TrailingBad(s) ==
    IF s = << >> \/ Last(s) # "BAD" THEN 0 ELSE 1 + TrailingBad(Front(s))

\* C1: after every update_counters call on fresh counters, steps_good +
\* steps_bad equals steps_total, and steps_total is the number of calls made.
C1_CounterInvariant ==
    /\ counters.steps_good + counters.steps_bad = counters.steps_total
    /\ counters.steps_total = Len(calls)

C1_Witness ==
    /\ Len(calls) = MaxSteps
    /\ counters.steps_good >= 2
    /\ counters.steps_bad >= 2
    /\ calls[1] = "BAD"
    /\ Last(calls) = "GOOD"

\* C5 as stated: after BAD, BAD, BAD, GOOD on fresh counters,
\* last_recovery_steps is 4 and first_bad_step is None.
C5_RecoveryIsFour ==
    calls = <<"BAD", "BAD", "BAD", "GOOD">> =>
        /\ counters.last_recovery_steps = Some(4)
        /\ IsNone(counters.first_bad_step)

\* C5, amended: after BAD, BAD, BAD, GOOD on fresh counters,
\* last_recovery_steps is 3 (the streak opened at step 1 and closed at step
\* 4) and first_bad_step is None.
C5_RecoveryIsThree ==
    calls = <<"BAD", "BAD", "BAD", "GOOD">> =>
        /\ counters.last_recovery_steps = Some(3)
        /\ IsNone(counters.first_bad_step)

C5_Witness ==
    /\ calls = <<"BAD", "BAD", "BAD", "GOOD">>
    /\ counters.steps_total = 4
    /\ ~IsNone(counters.last_recovery_steps)

\* C6: a GOOD step taken while a bad streak is open sets last_recovery_steps
\* to the incremented steps_total minus first_bad_step, which is the number
\* of consecutive BAD steps of the streak it closes, and clears
\* first_bad_step; for a streak of any length, starting at any step.
C6_RecoveryLength ==
    [][ (calls' = Append(calls, "GOOD") /\ ~IsNone(counters.first_bad_step)) =>
          /\ counters'.last_recovery_steps =
                Some(counters'.steps_total - Val(counters.first_bad_step))
          /\ counters'.last_recovery_steps = Some(TrailingBad(calls))
          /\ IsNone(counters'.first_bad_step) ]_vars

C6_Witness ==
    /\ Len(calls) >= 5
    /\ calls[1] = "GOOD"
    /\ Last(calls) = "GOOD"
    /\ TrailingBad(Front(calls)) = 2
    /\ counters.last_recovery_steps = Some(2)
    /\ IsNone(counters.first_bad_step)

---------------------------------------------------------------------------
(* Properties of decide_action, under SpecPolicy *)

Decided == decision # NoDecision

Flagged == args.scenario \in cfg.unrecoverable_scenarios

RecoverabilityAtFloor ==
    FLe(args.recoverability, cfg.refuse_recoverability_floor)
DriftAtLimit == FGe(args.cum_abs_dgv, cfg.refuse_cum_abs_dgv)
VelocityAtLimit == FGe(args.peak_abs_ds_dt, cfg.refuse_peak_abs_ds_dt)

HardLimitCrossed == RecoverabilityAtFloor \/ DriftAtLimit \/ VelocityAtLimit

SomeArgNotFinite ==
    \/ ~IsFinite(args.recoverability)
    \/ ~IsFinite(args.cum_abs_dgv)
    \/ ~IsFinite(args.peak_abs_ds_dt)

\* C2: for a flagged scenario with recoverability <= the refusal floor the
\* decision is SAFE_REFUSAL / recoverability_floor whatever the drift and the
\* peak velocity are; so it is for adversarial_saturation with recoverability
\* 0.03, drift 0.10, peak velocity 0.0001 under the default configuration.
C2_RefusalDominance ==
    /\ (Decided /\ Flagged /\ RecoverabilityAtFloor) =>
          /\ decision.action = "SAFE_REFUSAL"
          /\ decision.reason = "recoverability_floor"
    /\ ( /\ Decided
         /\ cfg = GVPolicyConfig
         /\ args = [scenario |-> "adversarial_saturation",
                    recoverability |-> Fin(300),
                    cum_abs_dgv |-> Fin(1000),
                    peak_abs_ds_dt |-> Fin(1)] ) =>
          /\ decision.action = "SAFE_REFUSAL"
          /\ decision.reason = "recoverability_floor"

\* a flagged scenario at the floor whose drift and velocity are within the
\* GOOD thresholds, and one whose drift and velocity are over their limits
C2_Witness ==
    /\ Decided
    /\ cfg = GVPolicyConfig
    /\ args.scenario = "adversarial_saturation"
    /\ args.recoverability = Fin(300)
    /\ args.cum_abs_dgv = Fin(1000)
    /\ args.peak_abs_ds_dt = Fin(1)
    /\ FLe(args.cum_abs_dgv, cfg.good_cum_abs_dgv)
    /\ FLe(args.peak_abs_ds_dt, cfg.good_peak_abs_ds_dt)
    /\ decision.action = "SAFE_REFUSAL"

\* C3: for a scenario that is not flagged the decision is never SAFE_REFUSAL,
\* and with recoverability at or below the refusal floor (0.0, say) it is
\* STABILIZE.
C3_StabilizeFallback ==
    (Decided /\ ~Flagged) =>
        /\ decision.action # "SAFE_REFUSAL"
        /\ (RecoverabilityAtFloor \/ args.recoverability = Fin(0)) =>
              decision.action = "STABILIZE"

C3_Witness ==
    /\ Decided
    /\ args.scenario = "benign"
    /\ args.recoverability = Fin(0)
    /\ DriftAtLimit
    /\ VelocityAtLimit
    /\ decision.action = "STABILIZE"

\* C4: for a flagged scenario the decision is SAFE_REFUSAL exactly when a
\* hard limit is crossed (recoverability <= floor, drift >= limit or peak
\* velocity >= limit); CONTINUE and STABILIZE are returned only when none is.
C4_RefusalIffLimit ==
    (Decided /\ Flagged) =>
        /\ (decision.action = "SAFE_REFUSAL") <=> HardLimitCrossed
        /\ HardLimitCrossed => decision.action \notin {"CONTINUE", "STABILIZE"}

\* only the velocity limit is crossed, and only just
C4_Witness ==
    /\ Decided
    /\ Flagged
    /\ ~RecoverabilityAtFloor
    /\ ~DriftAtLimit
    /\ args.peak_abs_ds_dt = cfg.refuse_peak_abs_ds_dt
    /\ decision.action = "SAFE_REFUSAL"

\* C7: when recoverability, drift or peak velocity is NaN or infinite, the
\* state returned is not GOOD and the action returned is not CONTINUE.
C7_NonFiniteNeverFavourable ==
    (Decided /\ SomeArgNotFinite) =>
        /\ decision.state # "GOOD"
        /\ decision.action # "CONTINUE"

\* C9: SAFE_REFUSAL comes with one of recoverability_floor,
\* drift_budget_exceeded, dsdt_spike; STABILIZE with trending_unsafe; CONTINUE
\* with the empty reason; nothing else is returned, and the row carries the
\* decision's action and reason.
C9_ReasonMatchesAction ==
    /\ Decided =>
          \/ /\ decision.action = "SAFE_REFUSAL"
             /\ decision.reason \in {"recoverability_floor",
                                     "drift_budget_exceeded", "dsdt_spike"}
          \/ /\ decision.action = "STABILIZE"
             /\ decision.reason = "trending_unsafe"
          \/ /\ decision.action = "CONTINUE"
             /\ decision.reason = ""
    /\ csv_row # EmptyRow =>
          /\ csv_row["safety_action"] = decision.action
          /\ csv_row["interlock_reason"] = decision.reason

C9_Witness ==
    /\ csv_row # EmptyRow
    /\ csv_row["safety_action"] = "STABILIZE"
    /\ csv_row["interlock_reason"] = "trending_unsafe"
    /\ Flagged

\* C10: for a flagged scenario the reason follows the order recoverability,
\* drift, velocity: drift_budget_exceeded only if recoverability > floor and
\* drift >= limit; dsdt_spike only if recoverability > floor, drift < limit
\* and peak velocity >= limit.
C10_ReasonOrder ==
    (Decided /\ Flagged) =>
        /\ decision.reason = "drift_budget_exceeded" =>
              /\ FGt(args.recoverability, cfg.refuse_recoverability_floor)
              /\ DriftAtLimit
        /\ decision.reason = "dsdt_spike" =>
              /\ FGt(args.recoverability, cfg.refuse_recoverability_floor)
              /\ FLt(args.cum_abs_dgv, cfg.refuse_cum_abs_dgv)
              /\ VelocityAtLimit

---------------------------------------------------------------------------
(* Properties of GVMonitor.update, under SpecMonitor *)

\* C8: a freshly constructed monitor has _prev_s = None, and its first update
\* returns ds_dt = 0.0 for every pair of inputs and every alpha, beta.
C8_FirstUpdateZero ==
    /\ n_updates = 0 => IsNone(monitor.prev_s)
    /\ n_updates = 1 => ret.ds_dt = Fin(0)

C8_Witness ==
    /\ n_updates = 1
    /\ IsFinite(ret.s_total)
    /\ ret.s_total.v > 0
    /\ ret.ds_dt = Fin(0)
    /\ monitor.alpha # Fin(92)

---------------------------------------------------------------------------
(* Further properties of decide_action, under SpecPolicy *)

TrendingUnsafe ==
    \/ FLt(args.recoverability, cfg.stabilize_recoverability)
    \/ FGt(args.cum_abs_dgv, cfg.stabilize_cum_abs_dgv)
    \/ FGt(args.peak_abs_ds_dt, cfg.stabilize_peak_abs_ds_dt)

InGoodRegion ==
    /\ FGe(args.recoverability, cfg.good_recoverability)
    /\ FLe(args.cum_abs_dgv, cfg.good_cum_abs_dgv)
    /\ FLe(args.peak_abs_ds_dt, cfg.good_peak_abs_ds_dt)

\* C11: when refusal does not trigger (scenario not flagged, or flagged with
\* no hard limit crossed) the decision is STABILIZE / trending_unsafe exactly
\* when recoverability < stabilize_recoverability or drift >
\* stabilize_cum_abs_dgv or peak velocity > stabilize_peak_abs_ds_dt, and
\* CONTINUE otherwise; benign with 0.50, 0.40, 0.0001 under the default
\* configuration gives STABILIZE / trending_unsafe.
C11_StabilizeExactly ==
    /\ (Decided /\ ~(Flagged /\ HardLimitCrossed)) =>
          /\ TrendingUnsafe =>
                /\ decision.action = "STABILIZE"
                /\ decision.reason = "trending_unsafe"
          /\ ~TrendingUnsafe => decision.action = "CONTINUE"
    /\ ( /\ Decided
         /\ cfg = GVPolicyConfig
         /\ args = [scenario |-> "benign",
                    recoverability |-> Fin(5000),
                    cum_abs_dgv |-> Fin(4000),
                    peak_abs_ds_dt |-> Fin(1)] ) =>
          /\ decision.action = "STABILIZE"
          /\ decision.reason = "trending_unsafe"

\* the drift sits exactly on the stabilize threshold of a flagged scenario
\* with no hard limit crossed: not yet trending unsafe
C11_Witness ==
    /\ Decided
    /\ Flagged
    /\ ~HardLimitCrossed
    /\ args.cum_abs_dgv = cfg.stabilize_cum_abs_dgv
    /\ ~TrendingUnsafe
    /\ decision.action = "CONTINUE"

\* C12: the state label of every decision is GOOD exactly when
\* recoverability >= good_recoverability and drift <= good_cum_abs_dgv and
\* peak velocity <= good_peak_abs_ds_dt, and BAD otherwise, on every return
\* path and whatever the scenario and the action.
C12_StateLabel ==
    Decided =>
        /\ decision.state \in {"GOOD", "BAD"}
        /\ (decision.state = "GOOD") <=> InGoodRegion
        /\ csv_row # EmptyRow => csv_row["gv_state"] = decision.state

\* a GOOD label on the SAFE_REFUSAL return path, recoverability exactly on
\* the GOOD threshold
C12_Witness ==
    /\ Decided
    /\ args.recoverability = cfg.good_recoverability
    /\ decision.state = "GOOD"
    /\ decision.action = "SAFE_REFUSAL"
    /\ csv_row # EmptyRow

---------------------------------------------------------------------------
(* Further properties of the run counters, under SpecCounters *)

\* number of GOOD states in s
RECURSIVE CountGood(_)
CountGood(s) ==
    IF s = << >> THEN 0
    ELSE CountGood(Front(s)) + (IF Last(s) = "GOOD" THEN 1 ELSE 0)

\* C13: a BAD step increments steps_bad; it sets first_bad_step to the
\* already incremented steps_total only if no streak is open and leaves it
\* unchanged otherwise, so first_bad_step is the (1-indexed) first step of
\* the current streak.
C13_BadStep ==
    [][ calls' = Append(calls, "BAD") =>
          /\ counters'.steps_bad = counters.steps_bad + 1
          /\ IsNone(counters.first_bad_step) =>
                counters'.first_bad_step = Some(counters'.steps_total)
          /\ ~IsNone(counters.first_bad_step) =>
                counters'.first_bad_step = counters.first_bad_step
          /\ counters'.first_bad_step =
                Some(Len(calls') - TrailingBad(calls') + 1) ]_vars

\* a streak of three BAD steps that opened at step 3
C13_Witness ==
    /\ Len(calls) = 5
    /\ calls[2] = "GOOD"
    /\ TrailingBad(calls) = 3
    /\ counters.first_bad_step = Some(3)
    /\ counters.steps_bad >= 3

\* C14: goodness_ratio() is steps_good / steps_total, the share of GOOD
\* steps among the calls made; it is 0.0 on fresh counters, and it lies in
\* [0, 1].
C14_GoodnessRatio ==
    LET r == goodness_ratio(counters)
    IN /\ r.den > 0
       /\ Len(calls) = 0 => r.num = 0
       /\ Len(calls) > 0 => r.num * Len(calls) = CountGood(calls) * r.den
       /\ 0 <= r.num
       /\ r.num <= r.den

C14_Witness ==
    /\ Len(calls) = 3
    /\ CountGood(calls) = 2
    /\ goodness_ratio(counters) = Ratio(2, 3)
    /\ round6(goodness_ratio(counters)) = 666667

---------------------------------------------------------------------------
(* Constructing a GVMonitor from keyword arguments.  The dataclass takes    *)
(* alpha, beta and threshold (and _prev_s), stores what it is given, and    *)
(* raises TypeError on any other keyword.                                   *)

TypeError == [error |-> "TypeError"]

IsObject(m) == "error" \notin DOMAIN m

GVMonitorNew(kw) ==
    IF DOMAIN kw \subseteq {"alpha", "beta", "threshold", "_prev_s"}
    THEN [ alpha     |-> Fin(IF "alpha" \in DOMAIN kw THEN kw["alpha"] ELSE 92),
           beta      |-> Fin(IF "beta" \in DOMAIN kw THEN kw["beta"] ELSE 8),
           threshold |-> Fin(IF "threshold" \in DOMAIN kw
                             THEN kw["threshold"] ELSE threshold),
           prev_s    |-> IF "_prev_s" \in DOMAIN kw
                         THEN Some(Fin(kw["_prev_s"])) ELSE None ]
    ELSE TypeError

\* the smoothing factor scripts/collect_ci_metrics.py passes, in 1e-2 units
gamma == 95

\* keyword arguments callers construct a monitor with
ConstructorInputs ==
    { [alpha |-> 92, beta |-> 8, threshold |-> 150],
      [alpha |-> 92, beta |-> 8, gamma |-> gamma, threshold |-> 25],
      [alpha |-> 92, beta |-> 8, gamma |-> 150],
      [alpha |-> -50, beta |-> 150],
      [alpha |-> 92, beta |-> -8] }

InitConstruct ==
    /\ cfg = GVPolicyConfig
    /\ args = NoCall
    /\ decision = NoDecision
    /\ csv_row = EmptyRow
    /\ counters = GVRunCounters
    /\ calls = << >>
    /\ \E kw \in ConstructorInputs : monitor = GVMonitorNew(kw)
    /\ ret = NoReturn
    /\ n_updates = 0
    /\ input = NoInput
    /\ past_calls = {}
    /\ runs = NoRuns
    /\ OthersIdle

ConstructedUpdate(g, l) ==
    /\ IsObject(monitor)
    /\ MonitorUpdate(g, l)

NextConstruct ==
    \E g \in EntropyInputs, l \in EntropyInputs : ConstructedUpdate(g, l)

SpecConstruct == InitConstruct /\ [][NextConstruct]_vars

---------------------------------------------------------------------------
(* A constant series: the first input is repeated on every later step.  The *)
(* loop over the series always takes its next step; n_updates stops         *)
(* counting at MaxUpdates.                                                  *)

FirstUpdate(g, l) ==
    /\ n_updates = 0
    /\ MonitorUpdate(g, l)

RepeatUpdate ==
    /\ n_updates >= 1
    /\ LET r == update(monitor, input[1], input[2])
       IN /\ monitor' = r.mon
          /\ ret' = [s_total |-> r.s_total, ds_dt |-> r.ds_dt]
    /\ n_updates' = IF n_updates < MaxUpdates THEN n_updates + 1 ELSE n_updates
    /\ UNCHANGED <<input, policyVars, counterVars, runVars, seriesVars>>

NextConstant ==
    \/ \E g \in EntropyInputs, l \in EntropyInputs : FirstUpdate(g, l)
    \/ RepeatUpdate

SpecConstant == InitMonitor /\ [][NextConstant]_vars /\ WF_vars(NextConstant)

---------------------------------------------------------------------------
(* A series that holds (0.5, 0.4) and then jumps to (0.9, 0.9) and stays    *)

\* steps of the series
MaxRun == 64

BaseInput == <<Fin(50), Fin(40)>>
JumpInput == <<Fin(90), Fin(90)>>

Feed(pair) ==
    /\ n_updates < MaxRun
    /\ LET r == update(monitor, pair[1], pair[2])
       IN /\ monitor' = r.mon
          /\ ret' = [s_total |-> r.s_total, ds_dt |-> r.ds_dt]
    /\ n_updates' = n_updates + 1
    /\ input' = pair
    /\ UNCHANGED <<policyVars, counterVars, runVars, seriesVars>>

Hold ==
    /\ input # JumpInput
    /\ Feed(BaseInput)

Jump ==
    /\ input = BaseInput
    /\ Feed(JumpInput)

Stay ==
    /\ input = JumpInput
    /\ Feed(JumpInput)

NextJump == Hold \/ Jump \/ Stay

SpecJump == Fresh /\ [][NextJump]_vars

---------------------------------------------------------------------------
(* Properties of the monitor's velocity *)

Abs(n) == IF n < 0 THEN 0 - n ELSE n

ReturnsFinite(r) == IsFinite(r.s_total) /\ IsFinite(r.ds_dt)

\* C15, under SpecMonitor: after each update the returned ds_dt is
\* gamma * (the previous ds_dt) + (1 - gamma) * raw_delta, raw_delta being
\* the change of s_total since the previous call and gamma the smoothing
\* factor the monitor is constructed with (0.95).
C15_SmoothedVelocity ==
    [][ ( /\ n_updates >= 1
          /\ n_updates' = n_updates + 1
          /\ ReturnsFinite(ret)
          /\ ReturnsFinite(ret') ) =>
          100 * ret'.ds_dt.v =
              gamma * ret.ds_dt.v
              + (100 - gamma) * (ret'.s_total.v - ret.s_total.v) ]_vars

\* C16, under SpecJump: at the step that jumps from (0.5, 0.4) to (0.9, 0.9)
\* the returned ds_dt is not zero and smaller in magnitude than the raw jump
\* of s_total, and on the following constant steps |ds_dt| goes on
\* decreasing without dropping to zero at once.
C16_DampedJump ==
    [][ /\ (input = BaseInput /\ input' = JumpInput) =>
              /\ ret'.ds_dt.v # 0
              /\ Abs(ret'.ds_dt.v) < Abs(ret'.s_total.v - ret.s_total.v)
        /\ (input = JumpInput /\ n_updates' = n_updates + 1
              /\ ret.ds_dt.v # 0) =>
              /\ ret'.ds_dt.v # 0
              /\ Abs(ret'.ds_dt.v) < Abs(ret.ds_dt.v) ]_vars

TimesWeights(pair) ==
    Fin(monitor.alpha.v * pair[1].v + monitor.beta.v * pair[2].v)

\* C17 as stated, under SpecConstant: with one input (G, L) repeated on every
\* step, every update returns s_total = alpha*G + beta*L, and ds_dt is
\* eventually 0.0 and stays 0.0.
C17_ConstantInput ==
    /\ [](n_updates >= 1 =>
             FEq(ret.s_total,
                 FAdd(FMul(monitor.alpha, input[1]),
                      FMul(monitor.beta, input[2]))))
    /\ <>[](n_updates >= 1 /\ FEq(ret.ds_dt, Fin(0)))

\* C17, amended: with one input (G, L) repeated on every step and
\* alpha*G + beta*L finite, every update returns s_total = alpha*G + beta*L,
\* and ds_dt is eventually 0.0 and stays 0.0.
C17_ConstantFiniteInput ==
    /\ [](n_updates >= 1 /\ IsFinite(input[1]) /\ IsFinite(input[2]) =>
             ret.s_total = TimesWeights(input))
    /\ <>[](n_updates >= 1
               /\ (IsFinite(ret.s_total) => ret.ds_dt = Fin(0)))

C17_Witness ==
    /\ n_updates = MaxUpdates
    /\ input = <<Fin(45), Fin(35)>>
    /\ monitor.alpha = Fin(92)
    /\ ret.s_total = Fin(4420)
    /\ ret.ds_dt = Fin(0)

\* C18, under SpecConstruct: a monitor constructed with a negative weight (or
\* a smoothing factor outside [0, 1)) does not come to exist, so update never
\* runs on one.
C18_InvalidRejected ==
    n_updates >= 1 =>
        /\ IsObject(monitor)
        /\ monitor.alpha.v >= 0
        /\ monitor.beta.v >= 0

---------------------------------------------------------------------------
(* Several runs, each with its own GVMonitor and GVRunCounters, stepped in  *)
(* any order.  One step of a run is the body of the loops in                *)
(* scripts/collect_ci_metrics.py (run_monitor_series) and of the usage      *)
(* sketch at the end of gv_policy.py: monitor.update, the running           *)
(* cum_abs_dgv and peak |ds_dt|, decide_action, update_counters, and a      *)
(* break on SAFE_REFUSAL.                                                   *)

MaxRunSteps == 2

RunIds == {1, 2}

RunScenario(r) == IF r = 1 THEN "adversarial_saturation" ELSE "benign"

\* (global_entropy, local_entropy, recoverability) of one step
StepInputs ==
    { <<Fin(50), Fin(40), Fin(10000)>>,
      <<Fin(50), Fin(41), Fin(10000)>>,
      <<Fin(50), Fin(40), Fin(5000)>>,
      <<Fin(90), Fin(90), Fin(300)>> }

\* abs(x)
FAbs(a) ==
    IF a.k = "fin" THEN Fin(Abs(a.v))
    ELSE IF a.k = "nan" THEN NaN
    ELSE PosInf

\* max(a, b): b when b > a, else a
PyMax(a, b) == IF FGt(b, a) THEN b ELSE a

NoOutput == [s_total |-> NaN, ds_dt |-> NaN, decision |-> NoDecision]

\* the state a run starts with; steps is the history of its inputs
NewRun(scenario) ==
    [ scenario     |-> scenario,
      monitor      |-> GVMonitor(92, 8),
      prev_s       |-> None,
      cum_abs_dgv  |-> Fin(0),
      peak_abs_ds  |-> Fin(0),
      counters     |-> GVRunCounters,
      out          |-> NoOutput,
      stopped      |-> FALSE,
      steps        |-> << >> ]

run_step(run, in, c) ==
    LET r    == update(run.monitor, in[1], in[2])
        dgv  == IF IsNone(run.prev_s) THEN Fin(0)
                ELSE FSub(r.s_total, Val(run.prev_s))
        cum  == FAdd(run.cum_abs_dgv, FAbs(dgv))
        peak == PyMax(run.peak_abs_ds, FAbs(r.ds_dt))
        d    == decide_action(run.scenario, in[3], cum, peak, c)
    IN [ scenario     |-> run.scenario,
         monitor      |-> r.mon,
         prev_s       |-> Some(r.s_total),
         cum_abs_dgv  |-> cum,
         peak_abs_ds  |-> peak,
         counters     |-> update_counters(run.counters, d.state),
         out          |-> [s_total |-> r.s_total, ds_dt |-> r.ds_dt,
                           decision |-> d],
         stopped      |-> d.action = "SAFE_REFUSAL",
         steps        |-> Append(run.steps, in) ]

InitInterleave ==
    /\ cfg = GVPolicyConfig
    /\ args = NoCall
    /\ decision = NoDecision
    /\ csv_row = EmptyRow
    /\ counters = GVRunCounters
    /\ calls = << >>
    /\ monitor = GVMonitor(92, 8)
    /\ ret = NoReturn
    /\ n_updates = 0
    /\ input = NoInput
    /\ past_calls = {}
    /\ runs = [ of    |-> [r \in RunIds |-> NewRun(RunScenario(r))],
                order |-> << >> ]
    /\ OthersIdle

\* A variant in which the runs hold one and the same monitor object
StepRunShared(r, in) ==
    /\ ~runs.of[r].stopped
    /\ Len(runs.of[r].steps) < MaxRunSteps
    /\ LET after == run_step(runs.of[r], in, cfg)
       IN runs' = [ of    |-> [q \in RunIds |->
                                  IF q = r THEN after
                                  ELSE [runs.of[q] EXCEPT
                                           !.monitor = after.monitor]],
                    order |-> Append(runs.order, r) ]
    /\ UNCHANGED <<policyVars, counterVars, monitorVars, seriesVars>>

\* Run r takes its next step; order records which run stepped when
StepRun(r, in) ==
    /\ ~runs.of[r].stopped
    /\ Len(runs.of[r].steps) < MaxRunSteps
    /\ runs' = [ of    |-> [runs.of EXCEPT ![r] = run_step(@, in, cfg)],
                 order |-> Append(runs.order, r) ]
    /\ UNCHANGED <<policyVars, counterVars, monitorVars, seriesVars>>

NextInterleave == \E r \in RunIds, in \in StepInputs : StepRun(r, in)

SpecInterleave == InitInterleave /\ [][NextInterleave]_vars

\* the run of the given scenario on its own, from a fresh monitor and fresh
\* counters, over the inputs in steps
RECURSIVE Alone(_, _)
Alone(scenario, steps) ==
    IF steps = << >> THEN NewRun(scenario)
    ELSE run_step(Alone(scenario, Front(steps)), Last(steps), GVPolicyConfig)

---------------------------------------------------------------------------
(* decide_action called again and again within one run, update_counters     *)
(* called with the state of the latest decision in between.  past_calls     *)
(* holds every (arguments, result) pair seen so far.                        *)

MaxRecalls == 3

RecallArgs ==
    [ scenario       : {"adversarial_saturation", "benign"},
      recoverability : {Fin(300), Fin(10000)},
      cum_abs_dgv    : {Fin(0), Fin(7500)},
      peak_abs_ds_dt : {Fin(0)} ]

InitRecall ==
    /\ cfg \in Configs
    /\ args = NoCall
    /\ decision = NoDecision
    /\ csv_row = EmptyRow
    /\ counters = GVRunCounters
    /\ calls = << >>
    /\ monitor = GVMonitor(92, 8)
    /\ ret = NoReturn
    /\ n_updates = 0
    /\ input = NoInput
    /\ past_calls = {}
    /\ runs = NoRuns
    /\ OthersIdle

Remember(a, d) == past_calls \cup {[args |-> a, decision |-> d]}

Refused == \E p \in past_calls : p.decision.action = "SAFE_REFUSAL"

\* A variant that keeps refusing once it has refused
RedecideLatched(a) ==
    /\ args' = a
    /\ decision' =
          IF Refused
          THEN Decision("SAFE_REFUSAL", "recoverability_floor",
                        classify_state(a.recoverability, a.cum_abs_dgv,
                                       a.peak_abs_ds_dt, cfg))
          ELSE decide_action(a.scenario, a.recoverability,
                             a.cum_abs_dgv, a.peak_abs_ds_dt, cfg)
    /\ past_calls' = Remember(a, decision')
    /\ UNCHANGED <<cfg, csv_row, interlock, counterVars, monitorVars, runVars, seriesVars>>

Redecide(a) ==
    /\ args' = a
    /\ decision' = decide_action(a.scenario, a.recoverability,
                                 a.cum_abs_dgv, a.peak_abs_ds_dt, cfg)
    /\ past_calls' = Remember(a, decision')
    /\ UNCHANGED <<cfg, csv_row, interlock, counterVars, monitorVars, runVars, seriesVars>>

CountDecision ==
    /\ Decided
    /\ counters.steps_total < MaxRecalls
    /\ counters' = update_counters(counters, decision.state)
    /\ calls' = Append(calls, decision.state)
    /\ UNCHANGED <<policyVars, monitorVars, runVars, seriesVars>>

NextRecall == (\E a \in RecallArgs : Redecide(a)) \/ CountDecision

SpecRecall == InitRecall /\ [][NextRecall]_vars

WithinSafeBounds == ~HardLimitCrossed /\ ~TrendingUnsafe

\* C20, under SpecRecall: a call of decide_action leaves the config and the
\* counters as they were; calls with the same arguments return the same
\* result whatever was decided or counted before; and a call whose metrics
\* are within the safe bounds returns CONTINUE even after an earlier call
\* returned SAFE_REFUSAL.
C20_Stateless ==
    [][ /\ cfg' = cfg
        /\ past_calls' # past_calls => counters' = counters
        /\ \A p, q \in past_calls' :
               p.args = q.args => p.decision = q.decision
        /\ (args' # args /\ WithinSafeBounds') =>
               decision'.action = "CONTINUE" ]_vars

C20_Witness ==
    /\ Refused
    /\ counters.steps_bad >= 1
    /\ WithinSafeBounds
    /\ decision.action = "CONTINUE"

---------------------------------------------------------------------------
(* scripts/collect_ci_metrics.py: run_monitor_series, one loop iteration    *)
(* per step.  series holds the locals prev_s, cum_abs_dgv, peak_abs_ds,     *)
(* peak_s and the rows built so far.                                        *)

MaxSeries == 4

SeriesInputs ==
    { <<g, l>> : g \in {Fin(35), Fin(45), Fin(69), NaN},
                 l \in {Fin(35), Fin(40)} }

NewSeries ==
    [ prev_s      |-> None,
      cum_abs_dgv |-> Fin(0),
      peak_abs_ds |-> Fin(0),
      peak_s      |-> Fin(0),
      rows        |-> << >> ]

\* A variant that sums the signed changes
series_step_signed(st, g, l, r) ==
    LET dgv == IF IsNone(st.prev_s) THEN Fin(0)
               ELSE FSub(r.s_total, Val(st.prev_s))
        cum == FAdd(st.cum_abs_dgv, dgv)
    IN [ prev_s      |-> Some(r.s_total),
         cum_abs_dgv |-> cum,
         peak_abs_ds |-> PyMax(st.peak_abs_ds, FAbs(r.ds_dt)),
         peak_s      |-> PyMax(st.peak_s, r.s_total),
         rows        |-> Append(st.rows,
                            [ t |-> Len(st.rows),
                              global_entropy |-> g,
                              local_entropy  |-> l,
                              s_total        |-> r.s_total,
                              ds_dt_ema      |-> r.ds_dt,
                              dgv            |-> dgv,
                              cum_abs_dgv    |-> cum ]) ]

\* The code, lines 42-66; r is what monitor.update(g, l) returned
series_step(st, g, l, r) ==
    LET dgv == IF IsNone(st.prev_s) THEN Fin(0)
               ELSE FSub(r.s_total, Val(st.prev_s))
        cum == FAdd(st.cum_abs_dgv, FAbs(dgv))
    IN [ prev_s      |-> Some(r.s_total),
         cum_abs_dgv |-> cum,
         peak_abs_ds |-> PyMax(st.peak_abs_ds, FAbs(r.ds_dt)),
         peak_s      |-> PyMax(st.peak_s, r.s_total),
         rows        |-> Append(st.rows,
                            [ t |-> Len(st.rows),
                              global_entropy |-> g,
                              local_entropy  |-> l,
                              s_total        |-> r.s_total,
                              ds_dt_ema      |-> r.ds_dt,
                              dgv            |-> dgv,
                              cum_abs_dgv    |-> cum ]) ]

InitSeries ==
    /\ cfg = GVPolicyConfig
    /\ args = NoCall
    /\ decision = NoDecision
    /\ csv_row = EmptyRow
    /\ counters = GVRunCounters
    /\ calls = << >>
    /\ monitor = GVMonitor(92, 8)
    /\ ret = NoReturn
    /\ n_updates = 0
    /\ input = NoInput
    /\ past_calls = {}
    /\ runs = NoRuns
    /\ series = NewSeries
    /\ velocity = NoVelocity
    /\ sim = NoSim
    /\ interlock = NoVerdict

SeriesStep(g, l) ==
    /\ Len(series.rows) < MaxSeries
    /\ LET r == update(monitor, g, l)
       IN /\ monitor' = r.mon
          /\ ret' = [s_total |-> r.s_total, ds_dt |-> r.ds_dt]
          /\ series' = series_step(series, g, l, r)
    /\ n_updates' = n_updates + 1
    /\ input' = <<g, l>>
    /\ UNCHANGED <<policyVars, counterVars, runVars, velocity, sim>>

NextSeries == \E in \in SeriesInputs : SeriesStep(in[1], in[2])

SpecSeries == InitSeries /\ [][NextSeries]_vars

\* sum of |s_total change| over the rows
RECURSIVE SumAbsChange(_)
SumAbsChange(rows) ==
    IF Len(rows) < 2 THEN Fin(0)
    ELSE FAdd(SumAbsChange(Front(rows)),
              FAbs(FSub(rows[Len(rows)].s_total, rows[Len(rows) - 1].s_total)))

\* m is the maximum of |ds_dt| over the rows
IsMaxAbsVelocity(m, rows) ==
    /\ \E i \in 1..Len(rows) : m = FAbs(rows[i].ds_dt_ema)
    /\ \A i \in 1..Len(rows) : FGe(m, FAbs(rows[i].ds_dt_ema))

AggregatesWellFormed(st) ==
    st.rows # << >> =>
        /\ st.rows[1].cum_abs_dgv = Fin(0)
        /\ FGe(st.cum_abs_dgv, Fin(0))
        /\ FEq(st.cum_abs_dgv, SumAbsChange(st.rows))
        /\ FGe(st.peak_abs_ds, Fin(0))
        /\ IsMaxAbsVelocity(st.peak_abs_ds, st.rows)

AggregatesGrow(before, after) ==
    /\ FGe(after.cum_abs_dgv, before.cum_abs_dgv)
    /\ FGe(after.peak_abs_ds, before.peak_abs_ds)

FiniteSeries(st) ==
    \A i \in 1..Len(st.rows) :
        IsFinite(st.rows[i].global_entropy) /\ IsFinite(st.rows[i].local_entropy)

\* C21 as stated, under SpecSeries: at every step of run_monitor_series,
\* cum_abs_dgv is 0 after the first step, is never negative, never decreases
\* and equals the sum of |s_total change| so far; peak_abs_ds_dt is never
\* negative, never decreases and equals the maximum |ds_dt| returned so far.
C21_Aggregates ==
    [][ AggregatesWellFormed(series') /\ AggregatesGrow(series, series') ]_vars

\* C21, amended: the same, along any run whose entropy inputs are all finite.
C21_FiniteAggregates ==
    [][ FiniteSeries(series') =>
           AggregatesWellFormed(series') /\ AggregatesGrow(series, series') ]_vars

C21_Witness ==
    /\ Len(series.rows) = MaxSeries
    /\ FiniteSeries(series)
    /\ FGt(series.cum_abs_dgv, series.peak_abs_ds)
    /\ FGt(series.peak_abs_ds, FAbs(ret.ds_dt))
    /\ FGt(FAbs(ret.ds_dt), Fin(0))

---------------------------------------------------------------------------
(* gv_interlock.py: the stand-alone interlock, in the units of the policy   *)

recoverability_floor == 500
cum_dgv_limit == 7500
dsdt_limit == 40

GVInterlockConfig ==
    [ recoverability_floor    |-> Fin(recoverability_floor),
      cum_dgv_limit           |-> Fin(cum_dgv_limit),
      dsdt_limit              |-> Fin(dsdt_limit),
      unrecoverable_scenarios |-> {"swarm_amplification",
                                   "adversarial_saturation"} ]

\* A variant that refuses only below the floor
evaluate_interlock_below(scenario, recoverability, cum_abs_dgv, peak_abs_ds_dt, c) ==
    IF scenario \in c.unrecoverable_scenarios
          /\ FLt(recoverability, c.recoverability_floor)
    THEN <<"refuse", "recoverability_floor">>
    ELSE IF scenario \in c.unrecoverable_scenarios
               /\ FGe(cum_abs_dgv, c.cum_dgv_limit)
    THEN <<"refuse", "drift_budget_exceeded">>
    ELSE IF scenario \in c.unrecoverable_scenarios
               /\ FGe(peak_abs_ds_dt, c.dsdt_limit)
    THEN <<"refuse", "dsdt_spike">>
    ELSE <<"continue", "">>

\* The code, lines 21-43
evaluate_interlock(scenario, recoverability, cum_abs_dgv, peak_abs_ds_dt, c) ==
    IF scenario \in c.unrecoverable_scenarios
          /\ FLe(recoverability, c.recoverability_floor)
    THEN <<"refuse", "recoverability_floor">>
    ELSE IF scenario \in c.unrecoverable_scenarios
               /\ FGe(cum_abs_dgv, c.cum_dgv_limit)
    THEN <<"refuse", "drift_budget_exceeded">>
    ELSE IF scenario \in c.unrecoverable_scenarios
               /\ FGe(peak_abs_ds_dt, c.dsdt_limit)
    THEN <<"refuse", "dsdt_spike">>
    ELSE <<"continue", "">>

InitInterlock ==
    /\ cfg = GVPolicyConfig
    /\ args \in Args
    /\ decision = NoDecision
    /\ csv_row = EmptyRow
    /\ counters = GVRunCounters
    /\ calls = << >>
    /\ monitor = GVMonitor(92, 8)
    /\ ret = NoReturn
    /\ n_updates = 0
    /\ input = NoInput
    /\ past_calls = {}
    /\ runs = NoRuns
    /\ OthersIdle

EvaluateInterlock ==
    /\ interlock = NoVerdict
    /\ interlock' = evaluate_interlock(args.scenario, args.recoverability,
                                       args.cum_abs_dgv, args.peak_abs_ds_dt,
                                       GVInterlockConfig)
    /\ UNCHANGED <<cfg, args, decision, csv_row, past_calls,
                   counterVars, monitorVars, runVars, seriesVars>>

NextInterlock == DecideAction \/ EvaluateInterlock

SpecInterlock == InitInterlock /\ [][NextInterlock]_vars

\* C25, under SpecInterlock: with the default configs, for the same scenario
\* and metrics evaluate_interlock returns ("refuse", r) exactly when
\* decide_action returns SAFE_REFUSAL with reason r, and ("continue", "")
\* exactly when decide_action returns CONTINUE or STABILIZE.
C25_InterlockAgrees ==
    (Decided /\ interlock # NoVerdict) =>
        /\ \A r \in {"recoverability_floor", "drift_budget_exceeded", "dsdt_spike"} :
              interlock = <<"refuse", r>> <=>
                  (decision.action = "SAFE_REFUSAL" /\ decision.reason = r)
        /\ interlock = <<"continue", "">> <=>
              decision.action \in {"CONTINUE", "STABILIZE"}
        /\ interlock[1] \in {"refuse", "continue"}

C25_Witness ==
    /\ interlock = <<"refuse", "dsdt_spike">>
    /\ decision.action = "SAFE_REFUSAL"
    /\ decision.reason = "dsdt_spike"
    /\ ~IsFinite(args.recoverability)

---------------------------------------------------------------------------
(* Action and state label together *)

\* C26, under SpecPolicy: with the default GVPolicyConfig and finite metrics,
\* decide_action returns CONTINUE if and only if the state is GOOD: GOOD never
\* comes with STABILIZE or SAFE_REFUSAL, BAD never with CONTINUE.
C26_ActionMatchesState ==
    (Decided /\ cfg = GVPolicyConfig /\ ~SomeArgNotFinite) =>
        (decision.action = "CONTINUE" <=> decision.state = "GOOD")

C26_Witness ==
    /\ cfg = GVPolicyConfig
    /\ ~SomeArgNotFinite
    /\ args.recoverability = cfg.good_recoverability
    /\ args.cum_abs_dgv = cfg.good_cum_abs_dgv
    /\ args.peak_abs_ds_dt = cfg.good_peak_abs_ds_dt
    /\ Flagged
    /\ decision.action = "CONTINUE"
    /\ decision.state = "GOOD"

---------------------------------------------------------------------------
(* The loop of the usage sketch of gv_policy.py, carried on after a refusal: *)
(* each step calls decide_action on the step's metrics and update_counters   *)
(* on the state it returned.  past_calls numbers the calls of the run.       *)

LoopScenarios == {"adversarial_saturation", "benign"}

LoopInputs ==
    [ recoverability : {Fin(300), Fin(10000), NaN},
      cum_abs_dgv    : {Fin(0), Fin(7500)},
      peak_abs_ds_dt : {Fin(0), Fin(40)} ]

LoopStep(scenario, m) ==
    /\ Cardinality(past_calls) < MaxRecalls
    /\ args = NoCall \/ args.scenario = scenario
    /\ args' = [ scenario       |-> scenario,
                 recoverability |-> m.recoverability,
                 cum_abs_dgv    |-> m.cum_abs_dgv,
                 peak_abs_ds_dt |-> m.peak_abs_ds_dt ]
    /\ decision' = decide_action(scenario, m.recoverability,
                                 m.cum_abs_dgv, m.peak_abs_ds_dt, cfg)
    /\ counters' = update_counters(counters, decision'.state)
    /\ calls' = Append(calls, decision'.state)
    /\ past_calls' = past_calls \cup
                        {[ step     |-> Cardinality(past_calls),
                           args     |-> args',
                           decision |-> decision' ]}
    /\ UNCHANGED <<cfg, csv_row, interlock, monitorVars, runVars, seriesVars>>

NextLoop == \E scenario \in LoopScenarios, m \in LoopInputs : LoopStep(scenario, m)

SpecLoop == InitRecall /\ [][NextLoop]_vars

\* the drift and velocity inputs of the run never decrease
AggregatesNeverDecrease ==
    \A p, q \in past_calls :
        p.step < q.step =>
            /\ FGe(q.args.cum_abs_dgv, p.args.cum_abs_dgv)
            /\ FGe(q.args.peak_abs_ds_dt, p.args.peak_abs_ds_dt)

LimitRefusal(d) ==
    /\ d.action = "SAFE_REFUSAL"
    /\ d.reason \in {"drift_budget_exceeded", "dsdt_spike"}

\* C27, under SpecLoop: in a run over an unrecoverable scenario whose
\* cum_abs_dgv and peak_abs_ds_dt inputs never decrease, every step after one
\* that returned SAFE_REFUSAL for drift_budget_exceeded or dsdt_spike returns
\* SAFE_REFUSAL too, whatever the recoverability is.
C27_RefusalPersists ==
    (Flagged /\ AggregatesNeverDecrease) =>
        \A p, q \in past_calls :
            (p.step < q.step /\ LimitRefusal(p.decision)) =>
                q.decision.action = "SAFE_REFUSAL"

C27_Witness ==
    /\ Flagged
    /\ AggregatesNeverDecrease
    /\ Cardinality(past_calls) = MaxRecalls
    /\ \E p \in past_calls : p.step = 0 /\ p.decision.reason = "dsdt_spike"
    /\ \E p \in past_calls : p.decision.reason = "recoverability_floor"
    /\ decision.reason = "drift_budget_exceeded"
    /\ args.recoverability = Fin(10000)

---------------------------------------------------------------------------
(* The streak fields of the counters *)

\* C28, under SpecCounters: after every update_counters call first_bad_step
\* is set if and only if the state just processed was BAD, and when set it
\* lies in 1..steps_total and every step from it to steps_total was BAD.
C28_OpenStreak ==
    calls # << >> =>
        /\ ~IsNone(counters.first_bad_step) <=> Last(calls) = "BAD"
        /\ ~IsNone(counters.first_bad_step) =>
              /\ 1 <= Val(counters.first_bad_step)
              /\ Val(counters.first_bad_step) <= counters.steps_total
              /\ \A i \in Val(counters.first_bad_step)..counters.steps_total :
                    calls[i] = "BAD"

C28_Witness ==
    /\ Len(calls) = 6
    /\ calls[1] = "BAD"
    /\ calls[3] = "GOOD"
    /\ calls[4] = "GOOD"
    /\ counters.first_bad_step = Some(5)
    /\ counters.steps_total = 6

\* the length of the bad streak closed last in s, None if none was closed
RECURSIVE LastClosedStreak(_)
LastClosedStreak(s) ==
    IF Len(s) < 2 THEN None
    ELSE IF Last(s) = "GOOD" /\ s[Len(s) - 1] = "BAD"
    THEN Some(TrailingBad(Front(s)))
    ELSE LastClosedStreak(Front(s))

\* C29, under SpecCounters: last_recovery_steps changes only on a GOOD step
\* that closes an open bad streak; it is None until the first such step and
\* at least 1 whenever set; every BAD step and every GOOD step taken with no
\* streak open leave it unchanged, so the value held, and written to the row
\* as time_to_recover_steps, is that of the most recent recovery.
C29_RecoveryFrame ==
    [][ /\ counters'.last_recovery_steps # counters.last_recovery_steps =>
              (calls' = Append(calls, "GOOD") /\ ~IsNone(counters.first_bad_step))
        /\ ~IsNone(counters'.last_recovery_steps) =>
              Val(counters'.last_recovery_steps) >= 1
        /\ counters'.last_recovery_steps = LastClosedStreak(calls')
        /\ attach_policy_fields_to_row(EmptyRow, NoDecision, counters')
              ["time_to_recover_steps"] = LastClosedStreak(calls') ]_vars

\* a recovery of two steps, still reported after a later recovery-free GOOD
\* step and a newly opened streak
C29_Witness ==
    /\ Len(calls) = 6
    /\ SubSeq(calls, 1, 6) = <<"GOOD", "BAD", "BAD", "GOOD", "GOOD", "BAD">>
    /\ counters.last_recovery_steps = Some(2)
    /\ counters.first_bad_step = Some(6)

---------------------------------------------------------------------------
(* gv_recoverability_velocity.py: GVRecoverabilityVelocity.  Recoverability  *)
(* values are in 1e-4 units; a returned mean is the ratio sum / count.       *)

MaxVelocityUpdates == 11

window == 10
min_points == 3

RecoverabilityVelocityConfig == [window |-> window, min_points |-> min_points]

VelocityConfigs ==
    { RecoverabilityVelocityConfig,
      [window |-> 2, min_points |-> 3],
      [window |-> 3, min_points |-> 2],
      [window |-> 3, min_points |-> 1] }

RecoverabilityValues == {9000, 5000}

ZeroDivisionError == [error |-> "ZeroDivisionError"]

\* GVRecoverabilityVelocity(config), lines 21-23
GVRecoverabilityVelocity(config) == [config |-> config, history |-> << >>]

\* deque(maxlen = n).append(x)
DequeAppend(h, x, n) ==
    IF n = 0 THEN << >>
    ELSE IF Len(h) < n THEN Append(h, x)
    ELSE Append(SubSeq(h, 2, Len(h)), x)

RECURSIVE SumSeq(_)
SumSeq(s) == IF s = << >> THEN 0 ELSE SumSeq(Front(s)) + Last(s)

\* update, lines 25-41: the observer afterwards and what the call returned
velocity_update(o, recoverability) ==
    LET h      == DequeAppend(o.history, recoverability, o.config.window)
        deltas == [i \in 1..(Len(h) - 1) |-> h[i + 1] - h[i]]
    IN [ obs |-> [o EXCEPT !.history = h],
         ret |-> IF Len(h) < o.config.min_points THEN Ratio(0, 1)
                 ELSE IF Len(deltas) = 0 THEN ZeroDivisionError
                 ELSE Ratio(SumSeq(deltas), Len(deltas)) ]

InitVelocity ==
    /\ cfg = GVPolicyConfig
    /\ args = NoCall
    /\ decision = NoDecision
    /\ csv_row = EmptyRow
    /\ counters = GVRunCounters
    /\ calls = << >>
    /\ monitor = GVMonitor(92, 8)
    /\ ret = NoReturn
    /\ n_updates = 0
    /\ input = NoInput
    /\ past_calls = {}
    /\ runs = NoRuns
    /\ series = NoSeries
    /\ \E config \in VelocityConfigs :
          velocity = [ observer |-> GVRecoverabilityVelocity(config),
                       returned |-> Ratio(0, 1),
                       fed      |-> << >> ]
    /\ sim = NoSim
    /\ interlock = NoVerdict

\* one update call; fed is the list of all values given so far
VelocityUpdate(recoverability) ==
    /\ Len(velocity.fed) < MaxVelocityUpdates
    /\ LET r == velocity_update(velocity.observer, recoverability)
       IN velocity' = [ observer |-> r.obs,
                        returned |-> r.ret,
                        fed      |-> Append(velocity.fed, recoverability) ]
    /\ UNCHANGED <<policyVars, counterVars, monitorVars, runVars, series, sim>>

NextVelocity == \E recoverability \in RecoverabilityValues : VelocityUpdate(recoverability)

SpecVelocity == InitVelocity /\ [][NextVelocity]_vars

Min(a, b) == IF a < b THEN a ELSE b

\* the last k elements of s
Tail_k(s, k) == SubSeq(s, Len(s) - k + 1, Len(s))

IsNumber(r) == "error" \notin DOMAIN r

\* C30, under SpecVelocity: after n update calls the history holds the most
\* recent min(n, window) values in arrival order; the call returned 0.0 if
\* the history holds fewer than min_points values and otherwise the mean of
\* the consecutive differences of the retained values, which is negative
\* when recoverability fell across the window.
C30_SlidingWindow ==
    LET h == velocity.observer.history
        c == velocity.observer.config
        n == Len(velocity.fed)
        r == velocity.returned
    IN n >= 1 =>
         /\ h = Tail_k(velocity.fed, Min(n, c.window))
         /\ IsNumber(r)
         /\ Len(h) < c.min_points => r.num = 0
         /\ Len(h) >= c.min_points =>
               /\ r.num * (Len(h) - 1) =
                     r.den * SumSeq([i \in 1..(Len(h) - 1) |-> h[i + 1] - h[i]])
               /\ h[Len(h)] < h[1] => r.num < 0

---------------------------------------------------------------------------
(* gv_edgecase_sims.py: adversarial_saturation_run, as                      *)
(* test_adversarial_saturation_detects_velocity_not_just_magnitude drives   *)
(* it, each generated step handed to _first_trigger_step's loop.  Entropies *)
(* are in 1e-6 units here, so s_total, ds_dt and the threshold are in 1e-8  *)
(* units.  rng.uniform(-wobble, wobble) is a choice among WobbleDraws.      *)

sat_steps == 650
eps == 450
wobble == 180
sat_threshold == 65000

WobbleDraws == {0 - wobble, 0 - (wobble \div 2), 0, wobble \div 2, wobble}

\* min(hi, max(lo, x))
Clamp(x, lo, hi) == IF x < lo THEN lo ELSE IF x > hi THEN hi ELSE x

\* 0.55 * x, rounded toward minus infinity to the unit
Times055(x) == (55 * x - ((55 * x) % 100)) \div 100

\* lines 112-113
NewSaturation ==
    [ t |-> 0, global_e |-> 450000, local_e |-> 350000, trig |-> None ]

\* lines 115-125, one iteration with the two draws wg and wl
saturation_step(s, wg, wl) ==
    LET g == Clamp(s.global_e + eps + wg, 100000, 690000)
        l == Clamp(s.local_e + Times055(g - s.local_e) + wl, 100000, 690000)
    IN [s EXCEPT !.t = @ + 1, !.global_e = g, !.local_e = l]

InitSaturation ==
    /\ cfg = GVPolicyConfig
    /\ args = NoCall
    /\ decision = NoDecision
    /\ csv_row = EmptyRow
    /\ counters = GVRunCounters
    /\ calls = << >>
    /\ monitor = GVMonitorNew([alpha |-> 92, beta |-> 8, threshold |-> sat_threshold])
    /\ ret = NoReturn
    /\ n_updates = 0
    /\ input = NoInput
    /\ past_calls = {}
    /\ runs = NoRuns
    /\ series = NoSeries
    /\ velocity = NoVelocity
    /\ sim = NewSaturation
    /\ interlock = NoVerdict

\* test_edge_cases.py lines 12-15: update, then return i on |ds_dt| > threshold
first_trigger(s, r, m) ==
    IF FGt(FAbs(r.ds_dt), m.threshold) THEN Some(s.t) ELSE None

SaturationStep(wg, wl) ==
    /\ sim.t < sat_steps
    /\ IsNone(sim.trig)
    /\ LET s == saturation_step(sim, wg, wl)
           r == update(monitor, Fin(s.global_e), Fin(s.local_e))
       IN /\ monitor' = r.mon
          /\ ret' = [s_total |-> r.s_total, ds_dt |-> r.ds_dt]
          /\ input' = <<Fin(s.global_e), Fin(s.local_e)>>
          /\ sim' = [s EXCEPT !.trig = first_trigger(sim, r, monitor)]
    /\ n_updates' = n_updates + 1
    /\ UNCHANGED <<policyVars, counterVars, runVars, series, velocity>>

NextSaturation == \E wg \in WobbleDraws, wl \in WobbleDraws : SaturationStep(wg, wl)

SpecSaturation ==
    InitSaturation /\ [][NextSaturation]_vars /\ WF_vars(NextSaturation)

\* C23, under SpecSaturation: over the adversarial saturation series of the
\* test (eps 0.00045, wobble up to 0.00018, threshold 0.00065) |ds_dt| >
\* threshold does occur at some step, and the first step where it does has
\* an index greater than 10.
C23_LateTrigger ==
    /\ <>(~IsNone(sim.trig))
    /\ [](~IsNone(sim.trig) => Val(sim.trig) > 10)

---------------------------------------------------------------------------
(* gv_edgecase_sims.py: human_ai_feedback_loop_run with the arguments of    *)
(* test_human_ai_feedback_loop_shows_silent_recoverability_loss.  bias and  *)
(* the entropies are in 1e-5 units, recoverability in 1e-9 units (the unit  *)
(* of recovery_decay * (0.3 + bias)).  The three rng.uniform draws of a     *)
(* step are held at one level per run: the bottom, the middle or the top of *)
(* their ranges, which bound every other sequence of draws since each       *)
(* quantity moves monotonically with its draw.                              *)

loop_steps == 520
bias_accum == 60
recovery_decay == 12

NoiseLevels == {-1, 0, 1}

\* lines 149-152
NewFeedbackLoop(nb, ng, nl) ==
    [ t |-> 0, global_e |-> 35000, local_e |-> 30000,
      recoverability |-> 980000000, bias |-> 0,
      first |-> None, noise |-> <<nb, ng, nl>> ]

\* lines 154-173, one iteration
feedback_step(s) ==
    LET drawn == s.bias + bias_accum
                    + s.noise[1] * ((15 * bias_accum) \div 100)
        bias == IF drawn < 0 THEN 0 ELSE drawn
        g    == s.global_e + 20 + s.noise[2] * 15
        l    == s.local_e + 18 + s.noise[3] * 15
        rec  == Clamp(s.recoverability - recovery_decay * (30000 + bias),
                      0, 1000000000)
    IN [ t              |-> s.t + 1,
         global_e       |-> Clamp(g, 10000, 69000),
         local_e        |-> Clamp(l, 10000, 69000),
         recoverability |-> rec,
         bias           |-> bias,
         first          |-> IF IsNone(s.first) THEN Some(rec) ELSE s.first,
         noise          |-> s.noise ]

InitFeedbackLoop ==
    /\ cfg = GVPolicyConfig
    /\ args = NoCall
    /\ decision = NoDecision
    /\ csv_row = EmptyRow
    /\ counters = GVRunCounters
    /\ calls = << >>
    /\ monitor = GVMonitor(92, 8)
    /\ ret = NoReturn
    /\ n_updates = 0
    /\ input = NoInput
    /\ past_calls = {}
    /\ runs = NoRuns
    /\ series = NoSeries
    /\ velocity = NoVelocity
    /\ \E nb \in NoiseLevels, ng \in NoiseLevels, nl \in NoiseLevels :
          sim = NewFeedbackLoop(nb, ng, nl)
    /\ interlock = NoVerdict

FeedbackStep ==
    /\ sim.t < loop_steps
    /\ sim' = feedback_step(sim)
    /\ UNCHANGED <<policyVars, counterVars, monitorVars, runVars, series, velocity>>

NextFeedbackLoop == FeedbackStep

SpecFeedbackLoop ==
    InitFeedbackLoop /\ [][NextFeedbackLoop]_vars /\ WF_vars(NextFeedbackLoop)

\* C24, under SpecFeedbackLoop: with steps = 520, bias_accum = 0.0006 and
\* recovery_decay = 0.0012 the recoverability series starts above 0.90 and
\* ends below 0.40, both entropy series stay strictly below 0.69, and
\* recoverability stays within [0, 1] and never increases.
C24_SilentLoss ==
    /\ [](sim.t >= 1 =>
             /\ Val(sim.first) > 900000000
             /\ sim.global_e < 69000
             /\ sim.local_e < 69000
             /\ sim.recoverability >= 0
             /\ sim.recoverability <= 1000000000)
    /\ [][sim'.recoverability <= sim.recoverability]_vars
    /\ [](sim.t = loop_steps => sim.recoverability < 400000000)

---------------------------------------------------------------------------
(* gv_edgecase_sims.py: swarm_amplification_run with the arguments of        *)
(* test_swarm_amplification_triggers_after_drift_kick, each generated step   *)
(* handed to _first_trigger_step's loop.  Coherence is in 1e-4 units,        *)
(* entropy in 1e-6 units, so s_total, ds_dt and the threshold are in 1e-8    *)
(* units.  The agents are taken to move together: all start at the same      *)
(* coherence, and the draws of one step are replaced by one common draw that *)
(* a run holds at a third of base_noise below zero, at zero, or a third      *)
(* above.  The coupling term coupling * (mean_coh - coh[i]) is then zero.    *)

swarm_steps == 260
base_noise == 30
drift_kick_step == 60
drift_kick == 22
swarm_threshold == 1500000

\* -p ln p - (1-p) ln(1-p), in 1e-6 units, at p = 0.00, 0.01, ..., 1.00; the
\* ends are the values at the clamps 0.000001 and 0.999999 of lines 79, 85
EntropyTable ==
    << 15, 56002, 98039, 134742, 167944, 198515, 226968, 253639,
       278769, 302538, 325083, 346515, 366925, 386387, 404963, 422709,
       439670, 455886, 471393, 486223, 500402, 513957, 526908, 539276,
       551080, 562335, 573057, 583259, 592953, 602152, 610864, 619101,
       626869, 634179, 641035, 647447, 653418, 658956, 664064, 668748,
       673012, 676859, 680292, 683315, 685930, 688139, 689944, 691346,
       692347, 692947, 693147, 692947, 692347, 691346, 689944, 688139,
       685930, 683315, 680292, 676859, 673012, 668748, 664064, 658956,
       653418, 647447, 641035, 634179, 626869, 619101, 610864, 602152,
       592953, 583259, 573057, 562335, 551080, 539276, 526908, 513957,
       500402, 486223, 471393, 455886, 439670, 422709, 404963, 386387,
       366925, 346515, 325083, 302538, 278769, 253639, 226968, 198515,
       167944, 134742, 98039, 56002, 15 >>

\* _shannon_entropy_from_probs([p, 1 - p]) for p in 1e-4 units, read off the
\* table with linear interpolation
two_state_entropy(p) ==
    LET q == Clamp(p, 0, 10000)
        i == q \div 100
    IN IF i = 100 THEN EntropyTable[101]
       ELSE EntropyTable[i + 1]
              + ((EntropyTable[i + 2] - EntropyTable[i + 1]) * (q % 100)) \div 100

SwarmLevels == {-1, 0, 1}

\* lines 57-60; the initial coherence is 0.98 + uniform(-0.01, 0.01)
NewSwarm(start, noise) ==
    [ t |-> 0, coh |-> 9800 + start * 100, noise |-> noise, trig |-> None,
      global_entropy |-> 0, local_entropy |-> 0 ]

\* lines 62-90, one iteration: the global entropy is that of the mean
\* coherence before the update, the local one that of the agents after it
swarm_step(s) ==
    LET drift == IF s.t >= drift_kick_step THEN drift_kick ELSE 0
        x     == s.coh + s.noise * (base_noise \div 3) - drift
        new   == Clamp(x, 0, 10000)
    IN [s EXCEPT !.t = @ + 1,
                 !.coh = new,
                 !.global_entropy = two_state_entropy(s.coh),
                 !.local_entropy = two_state_entropy(new)]

InitSwarm ==
    /\ cfg = GVPolicyConfig
    /\ args = NoCall
    /\ decision = NoDecision
    /\ csv_row = EmptyRow
    /\ counters = GVRunCounters
    /\ calls = << >>
    /\ monitor = GVMonitorNew([alpha |-> 92, beta |-> 8, threshold |-> swarm_threshold])
    /\ ret = NoReturn
    /\ n_updates = 0
    /\ input = NoInput
    /\ past_calls = {}
    /\ runs = NoRuns
    /\ series = NoSeries
    /\ velocity = NoVelocity
    /\ \E start \in SwarmLevels, noise \in SwarmLevels : sim = NewSwarm(start, noise)
    /\ interlock = NoVerdict

SwarmStep ==
    /\ sim.t < swarm_steps
    /\ IsNone(sim.trig)
    /\ LET s == swarm_step(sim)
           r == update(monitor, Fin(s.global_entropy), Fin(s.local_entropy))
       IN /\ monitor' = r.mon
          /\ ret' = [s_total |-> r.s_total, ds_dt |-> r.ds_dt]
          /\ input' = <<Fin(s.global_entropy), Fin(s.local_entropy)>>
          /\ sim' = [s EXCEPT !.trig = first_trigger(sim, r, monitor)]
    /\ n_updates' = n_updates + 1
    /\ UNCHANGED <<policyVars, counterVars, runVars, series, velocity>>

NextSwarm == SwarmStep

SpecSwarm == InitSwarm /\ [][NextSwarm]_vars

\* C22, under SpecSwarm: over the swarm amplification series of the test
\* (drift from step 60, threshold 0.015) |ds_dt| > threshold does occur at
\* some step (the loop does not run to its end without it), and the first
\* step where it does is not earlier than step 60.
C22_TriggerAfterKick ==
    /\ sim.t = swarm_steps => ~IsNone(sim.trig)
    /\ ~IsNone(sim.trig) => Val(sim.trig) >= drift_kick_step

=============================================================================
